---- MODULE Spec2Model ----
(***************************************************************************)
(* A model of program/server/server.go: the debugger server that drives a *)
(* traced child process (Run, Resume, Breakpoint, Eval, Frames), together  *)
(* with the part of the kernel's trace facility the server relies on.      *)
(*                                                                         *)
(* The server's handlers are sequences of blocking trace calls, so each    *)
(* handler is modelled as a process whose position is pc; one action is    *)
(* one trace call together with the server code around it.  The debuggee   *)
(* executes concurrently whenever one of its tasks is running.             *)
(***************************************************************************)
EXTENDS Integers, Sequences, FiniteSets, TLC

(***************************************************************************)
(* Bounds and constants.                                                   *)
(***************************************************************************)
\* Number of instruction addresses of the debuggee's text: 1..CodeLen.
CodeLen == 4
\* Width of an address in bits.
AddrBits == 8

\* Number of clients that call the handlers concurrently.
NCallers == 2

\* Largest length the file table is let grow to.
MaxFiles == 2

\* arch.AMD64: one-byte breakpoint instruction (int3, 0xCC).
BreakpointSize == 1
BreakpointInstr == 204

\* stoppedPid = 0 (server.go:230) and the pid argument of waitForTrap(-1).
NoPid == 0
AnyPid == -1

\* s.proc = nil
NoProc == 0

\* The tasks a debuggee can have: its root task and one cloned task.
RootPid == NoPid + 1
Tids == {RootPid, RootPid + 1}

Addrs == 1..CodeLen
\* Where exec leaves the root task, and the address just past the text,
\* where a task that runs off the end exits.
EntryPC == RootPid
ExitPC == CodeLen + 1

\* The unpatched instruction byte at address a (never the breakpoint byte).
Text(a) == 144 + a

(***************************************************************************)
(* The symbol and line tables of the executable (s.table).                 *)
(***************************************************************************)
SymNames == <<"rt0", "main.f1", "main.f2">>
SymSet == {SymNames[i] : i \in 1..Len(SymNames)}
SymAddr(n) == CASE n = "rt0" -> 1 [] n = "main.f1" -> 2 [] n = "main.f2" -> 4

Ok(v) == [ok |-> TRUE, v |-> v, err |-> "nil"]
Err(e) == [ok |-> FALSE, v |-> <<>>, err |-> e]

\* sym_to_addr
lookupSym(name) ==
    IF name \in SymSet THEN Ok(SymAddr(name)) ELSE Err("SymbolNotFound")

\* addr_to_sym: the function whose range [entry, next entry) holds pc.
FuncOf(a) ==
    CHOOSE n \in SymSet :
        /\ SymAddr(n) <= a
        /\ \A m \in SymSet : SymAddr(m) <= a => SymAddr(m) <= SymAddr(n)

lookupPC(a) ==
    IF a \in Addrs THEN Ok(FuncOf(a)) ELSE Err("NoSymbolAtAddress")

\* match(regex): the matching names in table order.  Patterns are named by
\* what they match.
Patterns == {"main\\.f.*", ".*", "main\\.Z", "("}
Matches(re, n) ==
    CASE re = ".*" -> TRUE
      [] re = "main\\.f.*" -> n \in {"main.f1", "main.f2"}
      [] OTHER -> FALSE

lookupRE(re) == Ok(SelectSeq(SymNames, LAMBDA n : Matches(re, n)))

\* regexp.Compile
Compiles(re) == re # "("

\* addr_to_source
lookupSource(a) == a \in Addrs

(***************************************************************************)
(* Strings.  An expression is the prefix it starts with ("" when it has    *)
(* none of the three) and the text after it; a piece of text that is not a *)
(* pattern or a symbol name is what was written or formatted into it: a    *)
(* number, a name, file:line, or digits followed by letters.               *)
(***************************************************************************)
Digits == <<"0", "1", "2", "3", "4", "5", "6", "7", "8", "9",
            "a", "b", "c", "d", "e", "f">>

\* The digits of n in base b, most significant first.
RECURSIVE FormatBase(_, _)
FormatBase(n, b) ==
    IF n < b THEN <<Digits[n + 1]>>
    ELSE Append(FormatBase(n \div b, b), Digits[(n % b) + 1])

\* fmt.Sprintf("%#x", addr), server.go:408; the text is kept character by
\* character in d.
HexNoPrefix(a) == [k |-> "hex", v |-> 0, s |-> "", d |-> FormatBase(a, 16)]
Hex(a) == [k |-> "hex", v |-> 0, s |-> "", d |-> <<"0", "x">> \o FormatBase(a, 16)]
Name(n) == [k |-> "name", v |-> 0, s |-> n, d |-> <<>>]
FileLine(a) == [k |-> "file:line", v |-> a, s |-> "", d |-> <<>>]
Junk == [k |-> "junk", v |-> 0, s |-> "", d |-> <<"1", "x">>]

\* The numbers a caller writes: no address of the text, the entry of main.f1
\* and the address after it.
Nums == {Hex(a) : a \in {0, SymAddr("main.f1"), SymAddr("main.f1") + 1}}

Exprs ==
    [pre : {"re:"}, arg : {Name(p) : p \in Patterns}]
        \cup [pre : {"sym:"}, arg : {Name(n) : n \in SymSet \cup {"main.nosuch"}}]
        \cup [pre : {"src:"}, arg : Nums \cup {Name("main.f1")}]
        \cup [pre : {""}, arg : Nums \cup {Junk, Name(""), Name("main.f1")}]

\* strings.HasPrefix(expr, p)
HasPrefix(expr, p) == expr.pre = p

\* len(expr) > 0 && '0' <= expr[0] && expr[0] <= '9', server.go:422
LeadingDigitAny(expr) == expr.pre = ""
LeadingDigit(expr) ==
    /\ expr.pre = ""
    /\ expr.arg.d # <<>>
    /\ \E i \in 1..10 : Digits[i] = Head(expr.arg.d)

\* The value of digit character c, 16 when c is no digit.
DigitVal(c) ==
    IF \E i \in 1..16 : Digits[i] = c THEN (CHOOSE i \in 1..16 : Digits[i] = c) - 1 ELSE 16

\* The value of digits ds in base b, stopping at 2^AddrBits: larger values
\* are out of range.
RECURSIVE ValueOf(_, _, _)
ValueOf(ds, b, acc) ==
    IF ds = <<>> \/ acc >= 2^AddrBits THEN acc
    ELSE ValueOf(Tail(ds), b, acc * b + DigitVal(Head(ds)))

\* strconv.ParseUint(s, 0, 0): base 16 after 0x, base 8 after 0, base 10
\* otherwise; an error for no digits, a character that is no digit of the
\* base, or a value that does not fit the word.
ParseUint(s) ==
    LET ds == s.d
        hex == Len(ds) >= 2 /\ ds[1] = "0" /\ ds[2] = "x"
        base == IF hex THEN 16 ELSE IF ds # <<>> /\ ds[1] = "0" THEN 8 ELSE 10
        body == IF hex THEN SubSeq(ds, 3, Len(ds)) ELSE ds
    IN  IF body = <<>> \/ \E i \in 1..Len(body) : DigitVal(body[i]) >= base
        THEN Err("ParseUint")
        ELSE IF ValueOf(body, base, 0) >= 2^AddrBits THEN Err("ParseUint")
        ELSE Ok(ValueOf(body, base, 0))

\* Server.eval, server.go:392-436
eval(expr) ==
    CASE HasPrefix(expr, "re:") ->
            IF ~Compiles(expr.arg.s) THEN Err("regexp")
            ELSE LET r == lookupRE(expr.arg.s) IN
                 IF r.ok THEN Ok([i \in 1..Len(r.v) |-> Name(r.v[i])]) ELSE r
      [] HasPrefix(expr, "sym:") ->
            LET r == lookupSym(expr.arg.s) IN
            IF r.ok THEN Ok(<<Hex(r.v)>>) ELSE r
      [] HasPrefix(expr, "src:") ->
            LET addr == ParseUint(expr.arg) IN
            IF ~addr.ok THEN addr
            ELSE IF lookupSource(addr.v) THEN Ok(<<FileLine(addr.v)>>)
            ELSE Err("NoLineData")
      [] LeadingDigit(expr) ->
            LET addr == ParseUint(expr.arg) IN
            IF ~addr.ok THEN addr
            ELSE LET r == lookupPC(addr.v) IN
                 IF r.ok THEN Ok(<<Name(r.v)>>) ELSE r
      [] OTHER -> Err("BadExpression")

\* Server.evalAddress, server.go:448-462
evalAddressSkew(s) ==
    LET n == ParseUint(s) IN IF n.ok THEN Ok(n.v + 1) ELSE Err("NotAnAddress")
evalAddress(s) ==
    LET sym == IF s.k = "name" THEN lookupSym(s.s) ELSE Err("SymbolNotFound")
    IN  IF sym.ok THEN sym
        ELSE LET n == ParseUint(s) IN
             IF n.ok THEN n ELSE Err("NotAnAddress")

(***************************************************************************)
(* State.                                                                  *)
(***************************************************************************)
VARIABLES
    \* Server fields (server.go:45-49) and its mutex (server.go:40)
    proc, procIsUp, stoppedPid, stoppedRegs, breakpoints, mu,
    \* the handler in progress: its position, request, locals; and the
    \* response of the last handler that returned
    pc, req, wf, todo, ret,
    \* the debuggee as the kernel holds it: code memory, tasks, trace options
    mem, task, traceclone,
    \* history: trace calls issued by the current handler call and the last
    \* one of them; instructions executed during a step-over; whether an
    \* install has not yet been followed by a completed lift; what the last
    \* stop and step were
    issued, last, nexec, dirty, obs,
    \* history: the server's fields when the current handler call began
    pre,
    \* the file table s.files (server.go:50); the callers of the handlers,
    \* each with the handler it called and its position in it
    files, at,
    \* the tracer task started by New: the thunks in channel fc, what the
    \* tracer is doing, and the last reply each caller took from channel ec
    fc, tracer, reply,
    \* history: the pcs the caller's previous request asked the server to
    \* delete
    deleted

srv == <<proc, procIsUp, stoppedPid, stoppedRegs, breakpoints>>
hnd == <<mu, pc, req, wf, todo, ret>>
kern == <<mem, task, traceclone>>
hist == <<issued, last, nexec, dirty, obs, pre>>
chan == <<fc, tracer, reply>>
ext == <<files, at, chan, deleted>>
vars == <<srv, hnd, kern, hist, ext>>

Callers == 1..NCallers
\* A caller that is in no handler.
Out == [h |-> "none", pc |-> "out"]

\* The tracer blocked in its receive from fc; a caller that has taken no reply.
TracerIdle == [pc |-> "recv", by |-> 0, call |-> "none", err |-> "none"]
NoReply == [by |-> 0, call |-> "none", err |-> "none"]

ZeroRegs == [Rip |-> 0]
NoTask == [st |-> "none", rip |-> 0, ev |-> "none", at |-> 0, step |-> FALSE]
NoWf == [from |-> "none", at |-> "none", pid |-> NoPid, wpid |-> NoPid, status |-> "none"]
NoCall == [call |-> "none", pid |-> NoPid]
NoObs ==
    [cause |-> "none", at |-> 0, rip |-> 0, path |-> "none", stepFrom |-> 0,
     stepByte |-> 0, wstatus |-> "none", wtid |-> NoPid, answered |-> {}]
NoPre ==
    [proc |-> NoProc, procIsUp |-> FALSE, stoppedPid |-> NoPid, stoppedRegs |-> ZeroRegs,
     breakpoints |-> <<>>, rip |-> 0, dirty |-> FALSE, files |-> <<>>]
NoRet == [op |-> "none", err |-> "nil", pc |-> 0, out |-> <<>>]
FreshMem == [a \in Addrs |-> Text(a)]

Init ==
    /\ proc = NoProc
    /\ procIsUp = FALSE
    /\ stoppedPid = NoPid
    /\ stoppedRegs = ZeroRegs
    /\ breakpoints = <<>>
    /\ mu = FALSE
    /\ pc = "idle"
    /\ req = [op |-> "none"]
    /\ wf = NoWf
    /\ todo = {}
    /\ ret = NoRet
    /\ mem = FreshMem
    /\ task = [t \in Tids |-> NoTask]
    /\ traceclone = FALSE
    /\ issued = {}
    /\ last = NoCall
    /\ nexec = 0
    /\ dirty = FALSE
    /\ obs = NoObs
    /\ pre = NoPre
    /\ files = <<>>
    /\ at = [c \in Callers |-> Out]
    /\ fc = <<>>
    /\ tracer = TracerIdle
    /\ reply = [c \in Callers |-> NoReply]
    /\ deleted = {}

(***************************************************************************)
(* The trace facility (the ptrace wrappers and wait, issued on the tracer  *)
(* task).  A trace call on a task succeeds only while that task is         *)
(* stopped; any trace call may also fail with a kernel error.              *)
(***************************************************************************)
Stopped(t) == task[t].st \in {"pend", "stop"}
CanTrace(pid) == pid \in Tids /\ Stopped(pid)

\* The status wait reports for a task: a SIGTRAP stop that is no clone
\* event, a clone-event SIGTRAP, a stop by another signal, or an exit.
WaitStatus(tk) ==
    CASE tk.st = "zomb" -> "exit"
      [] tk.ev \in {"exec", "bp", "step"} -> "trap"
      [] tk.ev = "clone" -> "clone"
      [] OTHER -> "sig"

\* wait(pid) can report task t: t has a stop or an exit not yet reported.
Reportable(pid, t) ==
    /\ pid = AnyPid \/ pid = t
    /\ task[t].st \in {"pend", "zomb"}

\* The task after wait has reported it.
Reported(tk) ==
    IF tk.st = "zomb" THEN NoTask
    ELSE [tk EXCEPT !.st = "stop", !.ev = "none", !.at = 0, !.step = FALSE]

KCont(t) == [task EXCEPT ![t] = [@ EXCEPT !.st = "run", !.ev = "none", !.at = 0, !.step = FALSE]]
KSingleStep(t) == [task EXCEPT ![t] = [@ EXCEPT !.st = "run", !.ev = "none", !.at = 0, !.step = TRUE]]
KPoke(a, b) == [mem EXCEPT ![a] = b]
KSetRegs(t, regs) == [task EXCEPT ![t] = [@ EXCEPT !.rip = regs.Rip]]

\* startProcess: the child has exec'ed with tracing on and is stopped by
\* the exec SIGTRAP at its entry point; its text is unpatched.
StartedTasks ==
    [t \in Tids |->
        IF t = RootPid
        THEN [st |-> "pend", rip |-> EntryPC, ev |-> "exec", at |-> 0, step |-> FALSE]
        ELSE NoTask]
NoTasks == [t \in Tids |-> NoTask]

Call(c, pid) == [call |-> c, pid |-> pid]
Issue(c, pid) == issued' = issued \cup {c} /\ last' = Call(c, pid)

(***************************************************************************)
(* Handler entry and return.                                               *)
(***************************************************************************)
\* The server's fields, the stopped task's actual pc and whether some table
\* pc may still be patched, as a handler call finds them.
Snap ==
    [proc |-> proc, procIsUp |-> procIsUp, stoppedPid |-> stoppedPid,
     stoppedRegs |-> stoppedRegs, breakpoints |-> breakpoints,
     rip |-> IF CanTrace(stoppedPid) THEN task[stoppedPid].rip ELSE 0,
     dirty |-> dirty, files |-> files]

\* s.mu.Lock() by a caller: no handler holds the mutex.
Lock == pc = "idle" /\ mu = FALSE

\* return err, with the deferred s.mu.Unlock()
Return(op, err, val, out) ==
    /\ pc' = "done"
    /\ mu' = FALSE
    /\ ret' = [op |-> op, err |-> err, pc |-> val, out |-> out]
    /\ wf' = NoWf
    /\ todo' = {}

\* The caller takes the response.
Deliver ==
    /\ UNCHANGED <<files, at, chan>>
    /\ deleted' = IF ret.op = "DeleteBreakpoints" THEN deleted ELSE {}
    /\ pc = "done"
    /\ pc' = "idle"
    /\ req' = [op |-> "none"]
    /\ ret' = NoRet
    /\ issued' = {}
    /\ last' = NoCall
    /\ obs' = NoObs
    /\ pre' = NoPre
    /\ nexec' = 0
    /\ UNCHANGED <<srv, mu, wf, todo, kern, dirty>>

(***************************************************************************)
(* Server.Run, server.go:222-250                                           *)
(***************************************************************************)
\* server.go:226-232: a prior process is killed and the state reset.
RunResetKeepsUp ==
    IF proc # NoProc
    THEN [proc |-> NoProc, procIsUp |-> procIsUp, stoppedPid |-> NoPid, stoppedRegs |-> ZeroRegs]
    ELSE [proc |-> proc, procIsUp |-> procIsUp, stoppedPid |-> stoppedPid, stoppedRegs |-> stoppedRegs]
RunResetKeepsPid ==
    IF proc # NoProc
    THEN [proc |-> NoProc, procIsUp |-> FALSE, stoppedPid |-> stoppedPid, stoppedRegs |-> ZeroRegs]
    ELSE [proc |-> proc, procIsUp |-> procIsUp, stoppedPid |-> stoppedPid, stoppedRegs |-> stoppedRegs]
RunReset ==
    IF proc # NoProc
    THEN [proc |-> NoProc, procIsUp |-> FALSE, stoppedPid |-> NoPid, stoppedRegs |-> ZeroRegs]
    ELSE [proc |-> proc, procIsUp |-> procIsUp, stoppedPid |-> stoppedPid, stoppedRegs |-> stoppedRegs]

\* server.go:244-249: the outcome of startProcess.
RunStart(s, started) ==
    IF started THEN [s EXCEPT !.proc = RootPid, !.stoppedPid = RootPid] ELSE s

Run ==
    /\ UNCHANGED ext
    /\ Lock
    /\ \E started \in BOOLEAN :
          LET s == RunStart(RunReset, started) IN
          /\ proc' = s.proc
          /\ procIsUp' = s.procIsUp
          /\ stoppedPid' = s.stoppedPid
          /\ stoppedRegs' = s.stoppedRegs
          /\ task' = IF started THEN StartedTasks ELSE NoTasks
          /\ Return("Run", IF started THEN "nil" ELSE "startProcess", 0, <<>>)
    /\ mem' = FreshMem
    /\ traceclone' = FALSE
    /\ req' = [op |-> "Run"]
    /\ dirty' = FALSE
    /\ pre' = Snap
    /\ UNCHANGED <<breakpoints, issued, last, nexec, obs>>

(***************************************************************************)
(* Server.Resume, server.go:252-315, and Server.waitForTrap, 317-331       *)
(***************************************************************************)
\* server.go:256
NoProcessNever == FALSE
NoProcess == proc = NoProc

\* server.go:270: the cached pc of the stopped task is in the table.
OnBreakpointNever == FALSE
OnBreakpoint == stoppedRegs.Rip \in DOMAIN breakpoints

\* server.go:305
RewindNone(rip) == rip
Rewind(rip) == rip - BreakpointSize

\* server.go:323: the stops waitForTrap returns for.
TrapReturnsClone(status) == status \in {"trap", "clone"}
TrapReturns(status) == status = "trap"

StartWait(from, pid) ==
    /\ pc' = "waitForTrap"
    /\ wf' = [from |-> from, at |-> "wait", pid |-> pid, wpid |-> NoPid, status |-> "none"]

\* server.go:364: the bytes setBreakpoints pokes at a table pc.
SetByteOriginal(a) == breakpoints[a].origInstr
SetByte(a) == BreakpointInstr

\* server.go:374: the bytes liftBreakpoints pokes at a table pc.
LiftByteBreakpoint(a) == BreakpointInstr
LiftByte(a) == breakpoints[a].origInstr

\* Entering setBreakpoints / liftBreakpoints: the range over the map.
StartSetSkip == pc' = "cont" /\ todo' = {} /\ dirty' = dirty
StartSet ==
    /\ pc' = IF DOMAIN breakpoints = {} THEN "cont" ELSE "setBreakpoints"
    /\ todo' = DOMAIN breakpoints
    /\ dirty' = (dirty \/ DOMAIN breakpoints # {})
StartLift ==
    /\ pc' = IF DOMAIN breakpoints = {} THEN "getRegs" ELSE "liftBreakpoints"
    /\ todo' = DOMAIN breakpoints
    /\ dirty' = (dirty /\ DOMAIN breakpoints # {})

Resume ==
    /\ UNCHANGED ext
    /\ Lock
    /\ req' = [op |-> "Resume"]
    /\ pre' = Snap
    /\ issued' = {}
    /\ last' = NoCall
    /\ nexec' = 0
    /\ UNCHANGED <<proc, stoppedPid, stoppedRegs, breakpoints, kern>>
    /\ IF NoProcess
       THEN /\ Return("Resume", "NoProcess", 0, <<>>)
            /\ UNCHANGED <<procIsUp, dirty, obs>>
       ELSE /\ mu' = TRUE
            /\ ret' = ret
            /\ IF ~procIsUp
               THEN /\ procIsUp' = TRUE
                    /\ StartWait("first", stoppedPid)
                    /\ obs' = [obs EXCEPT !.path = "first"]
                    /\ UNCHANGED <<todo, dirty>>
               ELSE /\ procIsUp' = procIsUp
                    /\ IF OnBreakpoint
                       THEN /\ pc' = "singleStep"
                            /\ obs' = [obs EXCEPT !.path = "step"]
                            /\ UNCHANGED <<wf, todo, dirty>>
                       ELSE /\ StartSet
                            /\ obs' = [obs EXCEPT !.path = "direct"]
                            /\ wf' = wf

\* An error return from inside Resume.  server.go:290 assigns the failed
\* waitForTrap's 0 to stoppedPid.
ResumeFailNever(err) == FALSE
ResumeFail(err) ==
    /\ Return("Resume", err, 0, <<>>)
    /\ stoppedPid' = IF pc = "waitForTrap" /\ wf.from = "main" THEN NoPid ELSE stoppedPid
    /\ UNCHANGED <<proc, procIsUp, stoppedRegs, breakpoints, req, kern, nexec, dirty, obs, pre>>

\* History: wait reported task t's stop.
Seen(t) == [obs EXCEPT !.wstatus = WaitStatus(task[t]), !.wtid = t]

\* waitForTrap returns wpid: the caller's next statement.
WaitReturns(t) ==
    CASE wf.from = "first" ->
            /\ pc' = "setOptions"
            /\ wf' = NoWf
            /\ obs' = Seen(t)
            /\ UNCHANGED <<stoppedPid, todo, dirty>>
      [] wf.from = "step" ->
            /\ StartSet
            /\ wf' = NoWf
            /\ obs' = Seen(t)
            /\ UNCHANGED stoppedPid
      [] OTHER ->
            /\ stoppedPid' = t
            /\ StartLift
            /\ wf' = NoWf
            /\ obs' = [Seen(t) EXCEPT !.cause = task[t].ev, !.at = task[t].at, !.rip = task[t].rip]

\* server.go:319-325
waitForTrap_wait ==
    /\ UNCHANGED ext
    /\ pc = "waitForTrap" /\ wf.at = "wait"
    /\ Issue("wait", wf.pid)
    /\ \/ \E t \in Tids :
             /\ Reportable(wf.pid, t)
             /\ task' = [task EXCEPT ![t] = Reported(@)]
             /\ IF TrapReturns(WaitStatus(task[t]))
                THEN WaitReturns(t)
                ELSE /\ wf' = [wf EXCEPT !.at = "cont", !.wpid = t, !.status = WaitStatus(task[t])]
                     /\ obs' = [obs EXCEPT !.wstatus = WaitStatus(task[t]), !.wtid = t,
                                           !.answered = @ \cup {WaitStatus(task[t])}]
                     /\ UNCHANGED <<pc, stoppedPid, todo, dirty>>
             /\ UNCHANGED <<proc, procIsUp, stoppedRegs, breakpoints, mu, req, ret, mem, traceclone, nexec, pre>>
       \/ ResumeFail("wait")

\* server.go:326-329
waitForTrap_cont ==
    /\ UNCHANGED ext
    /\ pc = "waitForTrap" /\ wf.at = "cont"
    /\ Issue("cont", wf.wpid)
    /\ \/ /\ CanTrace(wf.wpid)
          /\ task' = KCont(wf.wpid)
          /\ wf' = [wf EXCEPT !.at = "wait"]
          /\ UNCHANGED <<srv, mu, pc, req, todo, ret, mem, traceclone, nexec, dirty, obs, pre>>
       \/ ResumeFail("ptraceCont")

\* server.go:266-269
Resume_setOptions ==
    /\ UNCHANGED ext
    /\ pc = "setOptions"
    /\ Issue("setOptions", stoppedPid)
    /\ \/ /\ CanTrace(stoppedPid)
          /\ traceclone' = TRUE
          /\ StartSet
          /\ UNCHANGED <<srv, mu, req, wf, ret, mem, task, nexec, obs, pre>>
       \/ ResumeFail("ptraceSetOptions")

\* server.go:271-275
Resume_singleStep ==
    /\ UNCHANGED ext
    /\ pc = "singleStep"
    /\ Issue("singleStep", stoppedPid)
    /\ \/ /\ CanTrace(stoppedPid)
          /\ task' = KSingleStep(stoppedPid)
          /\ StartWait("step", stoppedPid)
          /\ obs' = [obs EXCEPT !.stepFrom = task[stoppedPid].rip,
                                !.stepByte = IF task[stoppedPid].rip \in Addrs
                                             THEN mem[task[stoppedPid].rip] ELSE 0]
          /\ UNCHANGED <<srv, mu, req, todo, ret, mem, traceclone, nexec, dirty, pre>>
       \/ ResumeFail("ptraceSingleStep")

\* server.go:307: the cached registers are written to the stopped task.
WriteBackNone(t) == task
WriteBack(t) == KSetRegs(t, stoppedRegs)

\* server.go:365-367, 375-377: the poke at a failed; the batch ends and
\* Resume returns the error (server.go:282-284, 296-298).
BatchFailIgnored(a, err, next) ==
    /\ todo' = todo \ {a}
    /\ pc' = IF todo = {a} THEN next ELSE pc
    /\ UNCHANGED <<srv, mu, req, wf, ret, kern, nexec, dirty, obs, pre>>
BatchFail(a, err, next) == ResumeFail(err)

\* Server.setBreakpoints, server.go:362-370: one iteration of the range.
setBreakpoints ==
    /\ UNCHANGED ext
    /\ pc = "setBreakpoints"
    /\ \E a \in todo :
          /\ Issue("poke", stoppedPid)
          /\ \/ /\ CanTrace(stoppedPid)
                /\ mem' = KPoke(a, SetByte(a))
                /\ todo' = todo \ {a}
                /\ pc' = IF todo = {a} THEN "cont" ELSE pc
                /\ UNCHANGED <<srv, mu, req, wf, ret, task, traceclone, nexec, dirty, obs, pre>>
             \/ BatchFail(a, "setBreakpoints", "cont")

\* server.go:285-290
Resume_cont ==
    /\ UNCHANGED ext
    /\ pc = "cont"
    /\ Issue("cont", stoppedPid)
    /\ \/ /\ CanTrace(stoppedPid)
          /\ task' = KCont(stoppedPid)
          /\ StartWait("main", AnyPid)
          /\ nexec' = 0
          /\ UNCHANGED <<srv, mu, req, todo, ret, mem, traceclone, dirty, obs, pre>>
       \/ ResumeFail("ptraceCont")

\* Server.liftBreakpoints, server.go:372-380: one iteration of the range.
liftBreakpoints ==
    /\ UNCHANGED ext
    /\ pc = "liftBreakpoints"
    /\ \E a \in todo :
          /\ Issue("poke", stoppedPid)
          /\ \/ /\ CanTrace(stoppedPid)
                /\ mem' = KPoke(a, LiftByte(a))
                /\ todo' = todo \ {a}
                /\ pc' = IF todo = {a} THEN "getRegs" ELSE pc
                /\ dirty' = (dirty /\ todo # {a})
                /\ UNCHANGED <<srv, mu, req, wf, ret, task, traceclone, nexec, obs, pre>>
             \/ BatchFail(a, "liftBreakpoints", "getRegs")

\* server.go:300-305
Resume_getRegs ==
    /\ UNCHANGED ext
    /\ pc = "getRegs"
    /\ Issue("getRegs", stoppedPid)
    /\ \/ /\ CanTrace(stoppedPid)
          /\ stoppedRegs' = [Rip |-> Rewind(task[stoppedPid].rip)]
          /\ pc' = "setRegs"
          /\ UNCHANGED <<proc, procIsUp, stoppedPid, breakpoints, mu, req, wf, todo, ret, kern, nexec, dirty, obs, pre>>
       \/ ResumeFail("ptraceGetRegs")

\* server.go:307-314
Resume_setRegs ==
    /\ UNCHANGED ext
    /\ pc = "setRegs"
    /\ Issue("setRegs", stoppedPid)
    /\ \/ /\ CanTrace(stoppedPid)
          /\ task' = WriteBack(stoppedPid)
          /\ Return("Resume", "nil", stoppedRegs.Rip, <<>>)
          /\ UNCHANGED <<srv, req, mem, traceclone, nexec, dirty, obs, pre>>
       \/ ResumeFail("ptraceSetRegs")

(***************************************************************************)
(* Server.Breakpoint, server.go:333-360                                    *)
(***************************************************************************)
\* server.go:347
AlreadySetNever(bps, a) == FALSE
AlreadySet(bps, a) == a \in DOMAIN bps

\* server.go:355-356: s.breakpoints[pc] = bp
InsertAlone(bps, a, orig) == [p \in {a} |-> [pc |-> a, origInstr |-> orig]]
InsertPatched(bps, a, orig) ==
    [p \in DOMAIN bps \cup {a} |->
        IF p = a THEN [pc |-> a, origInstr |-> BreakpointInstr] ELSE bps[p]]
Insert(bps, a, orig) ==
    [p \in DOMAIN bps \cup {a} |->
        IF p = a THEN [pc |-> a, origInstr |-> orig] ELSE bps[p]]

\* server.go:342-359: the loop over addrs, starting from table bps.  peeks
\* is the number of ptracePeek calls the kernel lets succeed.
RECURSIVE BreakpointLoop(_, _, _)
BreakpointLoop(as, bps, peeks) ==
    IF as = <<>> THEN [bps |-> bps, err |-> "nil", peeked |-> FALSE]
    ELSE LET a == evalAddress(Head(as)) IN
         IF ~a.ok THEN [bps |-> bps, err |-> a.err, peeked |-> FALSE]
         ELSE IF AlreadySet(bps, a.v)
         THEN [bps |-> bps, err |-> "DuplicateBreakpoint", peeked |-> FALSE]
         ELSE IF peeks = 0 \/ ~CanTrace(stoppedPid) \/ a.v \notin Addrs
         THEN [bps |-> bps, err |-> "ptracePeek", peeked |-> TRUE]
         ELSE [BreakpointLoop(Tail(as), Insert(bps, a.v, mem[a.v]), peeks - 1)
                  EXCEPT !.peeked = TRUE]

BreakpointOf(exprs) ==
    /\ UNCHANGED ext
    /\ Lock
    /\ \E e \in exprs, peeks \in 0..Len(SymNames) :
          LET addrs0 == eval(e)
              r == IF addrs0.ok THEN BreakpointLoop(addrs0.v, breakpoints, peeks)
                   ELSE [bps |-> breakpoints, err |-> addrs0.err, peeked |-> FALSE]
          IN  /\ req' = [op |-> "Breakpoint", expr |-> e]
              /\ breakpoints' = r.bps
              /\ Return("Breakpoint", r.err, 0, <<>>)
              /\ issued' = IF r.peeked THEN {"peek"} ELSE {}
              /\ last' = IF r.peeked THEN Call("peek", stoppedPid) ELSE NoCall
    /\ pre' = Snap
    /\ UNCHANGED <<proc, procIsUp, stoppedPid, stoppedRegs, kern, nexec, dirty, obs>>

Breakpoint == BreakpointOf(Exprs)

(***************************************************************************)
(* A request to delete breakpoints.  Server has no method for it (its      *)
(* methods are Open, ReadAt, Close, Run, Resume, Breakpoint, Eval and      *)
(* Frames), so the request is answered with an error before any code of    *)
(* the server runs, and the table keeps its entries.  The caller asks as   *)
(* ogler_test.go:587-612 does: with breakpoints at main.f1 and main.f2,    *)
(* for the deletion of those of main.f1, while the debuggee is stopped.    *)
(***************************************************************************)
DeleteBreakpoints ==
    /\ pc = "idle"
    /\ SymAddr("main.f2") \in DOMAIN breakpoints
    /\ stoppedPid # NoPid
    /\ \E a \in DOMAIN breakpoints :
          /\ a = SymAddr("main.f1")
          /\ a \notin deleted
          /\ req' = [op |-> "DeleteBreakpoints", pcs |-> {a}]
          /\ deleted' = deleted \cup {a}
    /\ pc' = "done"
    /\ ret' = [op |-> "DeleteBreakpoints", err |-> "NoSuchMethod", pc |-> 0, out |-> <<>>]
    /\ pre' = Snap
    /\ UNCHANGED <<srv, mu, wf, todo, kern, issued, last, nexec, dirty, obs, files, at, chan>>

(***************************************************************************)
(* Server.Eval, server.go:382-388                                          *)
(***************************************************************************)
Eval ==
    /\ UNCHANGED ext
    /\ Lock
    /\ \E e \in Exprs :
          /\ req' = [op |-> "Eval", expr |-> e]
          /\ Return("Eval", eval(e).err, 0, eval(e).v)
    /\ issued' = {}
    /\ last' = NoCall
    /\ pre' = Snap
    /\ UNCHANGED <<srv, kern, nexec, dirty, obs>>

(***************************************************************************)
(* Server.Frames, server.go:464-538.  The debug info gives main.f1 one int *)
(* parameter and the other functions none.                                 *)
(***************************************************************************)
Counts == {0, 1, 100}

\* server.go:469
UnimplementedAboveOne(count) == count > 1
Unimplemented(count) == count # 1
HasIntParam(fn) == fn = "main.f1"

\* server.go:476-477: the registers are read into the local regs; the
\* cached s.stoppedRegs stay as they are.
FramesRegsCached(regs) == regs
FramesRegs(regs) == stoppedRegs

Frames ==
    /\ UNCHANGED ext
    /\ Lock
    /\ pre' = Snap
    /\ UNCHANGED <<proc, procIsUp, stoppedPid, breakpoints, kern, nexec, dirty, obs>>
    /\ \E count \in Counts :
          /\ req' = [op |-> "Frames", count |-> count]
          /\ IF Unimplemented(count)
             THEN /\ Return("Frames", "Unimplemented", 0, <<>>)
                  /\ issued' = {}
                  /\ last' = NoCall
                  /\ stoppedRegs' = stoppedRegs
             ELSE \/ /\ Return("Frames", "ptraceGetRegs", 0, <<>>)
                     /\ issued' = {"getRegs"}
                     /\ last' = Call("getRegs", stoppedPid)
                     /\ stoppedRegs' = stoppedRegs
                  \/ /\ CanTrace(stoppedPid)
                     /\ stoppedRegs' = FramesRegs([Rip |-> task[stoppedPid].rip])
                     /\ LET entry == lookupPC(task[stoppedPid].rip) IN
                        IF ~entry.ok
                        THEN /\ Return("Frames", "entryForPC", 0, <<>>)
                             /\ issued' = {"getRegs"}
                             /\ last' = Call("getRegs", stoppedPid)
                        ELSE IF ~HasIntParam(entry.v)
                        THEN /\ Return("Frames", "nil", 0, <<entry.v>>)
                             /\ issued' = {"getRegs"}
                             /\ last' = Call("getRegs", stoppedPid)
                        ELSE /\ issued' = {"getRegs", "peek"}
                             /\ last' = Call("peek", stoppedPid)
                             /\ \/ Return("Frames", "nil", 0, <<entry.v>>)
                                \/ Return("Frames", "ptracePeek", 0, <<>>)

(***************************************************************************)
(* The debuggee.  Its text is straight-line code: a running task executes  *)
(* the instruction at its pc and moves to the next address, and exits the  *)
(* process when it runs past the end.                                      *)
(***************************************************************************)
\* The instruction after main.f1's entry is a clone call.
CloneAt == SymAddr("main.f1") + 1

\* The step-over of a Resume is in progress on task t.
StepOver(t) == pc = "waitForTrap" /\ wf.from = "step" /\ t = stoppedPid

Running(t) == task[t].st = "run"

\* Task t runs past the end of the text: the process exits, and wait will
\* report the root task's exit.
Exit(t) ==
    /\ UNCHANGED ext
    /\ Running(t)
    /\ task[t].rip = ExitPC
    /\ task' = [u \in Tids |->
                   IF u = RootPid THEN [NoTask EXCEPT !.st = "zomb", !.ev = "exit"]
                   ELSE NoTask]
    /\ UNCHANGED <<srv, hnd, mem, traceclone, hist>>

\* A signal other than SIGTRAP stops task t, also the fault of a pc that
\* is not in the text.
Signal(t) ==
    /\ UNCHANGED ext
    /\ Running(t)
    /\ task[t].rip # ExitPC
    /\ task' = [task EXCEPT ![t] = [@ EXCEPT !.st = "pend", !.ev = "sig", !.step = FALSE]]
    /\ UNCHANGED <<srv, hnd, mem, traceclone, hist>>

\* Task t executes the breakpoint instruction: SIGTRAP, pc left after it.
Trap(t) ==
    /\ UNCHANGED ext
    /\ Running(t)
    /\ task[t].rip \in Addrs
    /\ mem[task[t].rip] = BreakpointInstr
    /\ task' = [task EXCEPT ![t] =
                   [st |-> "pend", rip |-> task[t].rip + BreakpointSize, ev |-> "bp",
                    at |-> task[t].rip, step |-> FALSE]]
    /\ UNCHANGED <<srv, hnd, mem, traceclone, hist>>

\* The root task is about to execute the clone call with trace-clone set
\* and no clone made yet.
Cloning(t) ==
    /\ t = RootPid
    /\ task[t].rip = CloneAt
    /\ traceclone
    /\ \A n \in Tids \ {RootPid} : task[n].st = "none"

\* Task t executes the original instruction at its pc; a single-stepped
\* task then stops with SIGTRAP.
Execute(t) ==
    /\ UNCHANGED ext
    /\ Running(t)
    /\ task[t].rip \in Addrs
    /\ mem[task[t].rip] # BreakpointInstr
    /\ ~Cloning(t)
    /\ task' = [task EXCEPT ![t] =
                   IF task[t].step
                   THEN [st |-> "pend", rip |-> task[t].rip + 1, ev |-> "step",
                         at |-> 0, step |-> FALSE]
                   ELSE [task[t] EXCEPT !.rip = task[t].rip + 1]]
    /\ nexec' = IF StepOver(t) THEN nexec + 1 ELSE nexec
    /\ UNCHANGED <<srv, hnd, mem, traceclone, issued, last, dirty, obs, pre>>

\* The root task clones: it stops with a clone-event SIGTRAP and the new
\* task starts stopped by SIGSTOP.
Clone ==
    /\ UNCHANGED ext
    /\ Running(RootPid)
    /\ Cloning(RootPid)
    /\ mem[CloneAt] # BreakpointInstr
    /\ task' = [n \in Tids |->
                   IF n = RootPid
                   THEN [st |-> "pend", rip |-> CloneAt + 1, ev |-> "clone",
                         at |-> 0, step |-> FALSE]
                   ELSE [st |-> "pend", rip |-> CloneAt + 1, ev |-> "sig",
                         at |-> 0, step |-> FALSE]]
    /\ nexec' = IF StepOver(RootPid) THEN nexec + 1 ELSE nexec
    /\ UNCHANGED <<srv, hnd, mem, traceclone, issued, last, dirty, obs, pre>>

Debuggee == \E t \in Tids : Exit(t) \/ Signal(t) \/ Trap(t) \/ Execute(t)

Next ==
    \/ Run
    \/ Resume
    \/ waitForTrap_wait
    \/ waitForTrap_cont
    \/ Resume_setOptions
    \/ Resume_singleStep
    \/ setBreakpoints
    \/ Resume_cont
    \/ liftBreakpoints
    \/ Resume_getRegs
    \/ Resume_setRegs
    \/ Breakpoint
    \/ Eval
    \/ Frames
    \/ DeleteBreakpoints
    \/ Deliver
    \/ Debuggee
    \/ Clone

Spec == Init /\ [][Next]_vars

(***************************************************************************)
(* Fairness.  The handler's goroutine runs: each of its trace calls is     *)
(* executed by the tracer and returns, wait when the kernel has a status   *)
(* or an error to report.  The debuggee's tasks run when they are          *)
(* continued: a task that is set running again and again executes its      *)
(* next instruction, however often a signal stops it first.  Nothing makes *)
(* a caller call, and nothing makes a signal arrive.                       *)
(***************************************************************************)
HandlerStep ==
    \/ waitForTrap_wait
    \/ waitForTrap_cont
    \/ Resume_setOptions
    \/ Resume_singleStep
    \/ setBreakpoints
    \/ Resume_cont
    \/ liftBreakpoints
    \/ Resume_getRegs
    \/ Resume_setRegs

Progress == Clone \/ \E t \in Tids : Exit(t) \/ Trap(t) \/ Execute(t)

\* The callers of this specification run the process, set breakpoints at
\* the two functions of main and resume.
SymExprs == [pre : {"sym:"}, arg : {Name("main.f1"), Name("main.f2")}]

BreakpointSym == BreakpointOf(SymExprs)

NextResume ==
    \/ Run
    \/ Resume
    \/ HandlerStep
    \/ BreakpointSym
    \/ Deliver
    \/ Debuggee
    \/ Clone

SpecFair == Init /\ [][NextResume]_vars /\ WF_vars(HandlerStep) /\ SF_vars(Progress)

\* The handler's goroutine runs, and the debuggee may be starved.
SpecUnfair == Init /\ [][NextResume]_vars /\ WF_vars(HandlerStep)

(***************************************************************************)
(* The path of an address through Breakpoint("sym:..."): eval formats the  *)
(* address the symbol table gives (server.go:408) and evalAddress parses   *)
(* the text (server.go:449-461).  The symbol table of the model has three  *)
(* addresses; this action takes the address from the whole word.           *)
(***************************************************************************)
SymPath ==
    /\ pc = "idle"
    /\ \E a \in 0..(2^AddrBits - 1) :
          LET r == evalAddress(Hex(a)) IN
          /\ req' = [op |-> "SymPath", addr |-> a]
          /\ ret' = [op |-> "SymPath", err |-> r.err, pc |-> IF r.ok THEN r.v ELSE 0,
                     out |-> <<Hex(a)>>]
    /\ pc' = "done"
    /\ pre' = Snap
    /\ UNCHANGED <<srv, mu, wf, todo, kern, issued, last, nexec, dirty, obs, ext>>

NextSym == Run \/ BreakpointSym \/ SymPath \/ Deliver

SpecSym == Init /\ [][NextSym]_vars

TypeOK ==
    /\ proc \in {NoProc, RootPid}
    /\ procIsUp \in BOOLEAN
    /\ stoppedPid \in {NoPid} \cup Tids
    /\ stoppedRegs.Rip \in 0..ExitPC
    /\ DOMAIN breakpoints \subseteq Addrs
    /\ \A t \in Tids : task[t].rip \in 0..ExitPC
    /\ todo \subseteq DOMAIN breakpoints

(***************************************************************************)
(* Server.Open, Server.ReadAt, Server.Close, server.go:156-220.  The file  *)
(* table s.files is a slice of *file; index == file descriptor.  The host  *)
(* file operations may fail; issued records the host file call of the      *)
(* handler call.                                                           *)
(***************************************************************************)
\* s.files[i] == nil
NilFile == [mode |-> "nil", index |-> 0]

Modes == {"r", "w", "rw", "a"}
FDs == -1..MaxFiles

\* server.go:198, 213: the slot of fd in table fs (fd counts from 0).
OccupiedInRange(fs, fd) == fd >= 0 /\ fd < Len(fs)
Occupied(fs, fd) == fd >= 0 /\ fd < Len(fs) /\ fs[fd + 1] # NilFile

\* server.go:177-179: the first empty slot, or the length of the table.
FreeIndexAppend(fs) == Len(fs)
FreeIndex(fs) ==
    IF \E i \in 1..Len(fs) : fs[i] = NilFile
    THEN (CHOOSE i \in 1..Len(fs) : fs[i] = NilFile /\ \A j \in 1..(i - 1) : fs[j] # NilFile) - 1
    ELSE Len(fs)

\* server.go:180-189
Store(fs, index, f) ==
    IF index = Len(fs) THEN Append(fs, f) ELSE [fs EXCEPT ![index + 1] = f]

\* server.go:216-218: host close with result err, then "Remove it regardless".
CloseSlotIfOk(fs, fd, err) == IF err = "nil" THEN [fs EXCEPT ![fd + 1] = NilFile] ELSE fs
CloseSlot(fs, fd, err) == [fs EXCEPT ![fd + 1] = NilFile]

Open ==
    /\ Lock
    /\ pre' = Snap
    /\ UNCHANGED <<srv, kern, last, nexec, dirty, obs, at, chan, deleted>>
    /\ \E mode \in Modes, hostOk \in BOOLEAN :
          /\ req' = [op |-> "Open", mode |-> mode]
          /\ issued' = IF mode \in {"r", "w", "rw"} THEN {"os.OpenFile"} ELSE {}
          /\ IF mode \notin {"r", "w", "rw"}
             THEN /\ Return("Open", "BadMode", 0, <<>>)
                  /\ files' = files
             ELSE IF ~hostOk
             THEN /\ Return("Open", "OpenFile", 0, <<>>)
                  /\ files' = files
             ELSE LET index == FreeIndex(files) IN
                  /\ index < MaxFiles
                  /\ files' = Store(files, index, [mode |-> mode, index |-> index])
                  /\ Return("Open", "nil", 0, <<>>)

ReadAt ==
    /\ Lock
    /\ pre' = Snap
    /\ UNCHANGED <<srv, kern, last, nexec, dirty, obs, ext>>
    /\ \E fd \in FDs :
          /\ req' = [op |-> "ReadAt", fd |-> fd]
          /\ issued' = IF Occupied(files, fd) THEN {"File.ReadAt"} ELSE {}
          /\ IF ~Occupied(files, fd)
             THEN Return("ReadAt", "BadFd", 0, <<>>)
             ELSE \E err \in {"nil", "ReadAt"} : Return("ReadAt", err, 0, <<>>)

Close ==
    /\ Lock
    /\ pre' = Snap
    /\ UNCHANGED <<srv, kern, last, nexec, dirty, obs, at, chan, deleted>>
    /\ \E fd \in FDs :
          /\ req' = [op |-> "Close", fd |-> fd]
          /\ issued' = IF Occupied(files, fd) THEN {"File.Close"} ELSE {}
          /\ IF ~Occupied(files, fd)
             THEN /\ Return("Close", "BadFd", 0, <<>>)
                  /\ files' = files
             ELSE \E err \in {"nil", "Close"} :
                     /\ files' = CloseSlot(files, fd, err)
                     /\ Return("Close", err, 0, <<>>)

NextFiles == Open \/ ReadAt \/ Close \/ Deliver

SpecFiles == Init /\ [][NextFiles]_vars

(***************************************************************************)
(* Concurrent callers and the mutex.  Every handler begins with            *)
(* s.mu.Lock(); defer s.mu.Unlock() (server.go:157, 194, 209, 223, 253,    *)
(* 334, 383, 466).  A caller asks for a handler, blocks in Lock until the  *)
(* mutex is free, runs the body and returns with nil or with an error.     *)
(***************************************************************************)
Handlers == {"Open", "ReadAt", "Close", "Run", "Resume", "Breakpoint", "Eval", "Frames"}
Outcomes == {"nil", "err"}

Inside(c) == at[c].pc = "body"

\* The deferred s.mu.Unlock() of handler h runs on its return with outcome r.
UnlocksOnNil(h, r) == r = "nil"
Unlocks(h, r) == TRUE

\* An RPC for handler h arrives: its goroutine reaches s.mu.Lock().
Request(c) ==
    /\ at[c].pc = "out"
    /\ \E h \in Handlers : at' = [at EXCEPT ![c] = [h |-> h, pc |-> "lock"]]
    /\ UNCHANGED <<srv, hnd, kern, hist, files, chan, deleted>>

\* s.mu.Lock() returns.
MuLock(c) ==
    /\ at[c].pc = "lock"
    /\ mu = FALSE
    /\ mu' = TRUE
    /\ at' = [at EXCEPT ![c] = [@ EXCEPT !.pc = "body"]]
    /\ UNCHANGED <<srv, pc, req, wf, todo, ret, kern, hist, files, chan, deleted>>

\* The handler returns, on any of its return statements.
MuReturn(c) ==
    /\ Inside(c)
    /\ \E r \in Outcomes : mu' = IF Unlocks(at[c].h, r) THEN FALSE ELSE mu
    /\ at' = [at EXCEPT ![c] = Out]
    /\ UNCHANGED <<srv, pc, req, wf, todo, ret, kern, hist, files, chan, deleted>>

NextMutex == \E c \in Callers : Request(c) \/ MuLock(c) \/ MuReturn(c)

SpecMutex == Init /\ [][NextMutex]_vars

(***************************************************************************)
(* The tracer task.  New makes the channels fc and ec and starts ptraceRun *)
(* on them (server.go:70-74).  ptraceRun receives a thunk from fc, runs    *)
(* it and sends its error on ec; a trace-call wrapper sends its thunk on   *)
(* fc and then receives from ec.  Callers submit concurrently here.        *)
(***************************************************************************)
TraceCalls == {"wait", "peek"}

\* server.go:70: make(chan func() error) has no buffer.
FcBuffered == FALSE
FcUnbuffered == TRUE

\* A send on fc can complete: a receiver is waiting, or the buffer has room.
CanSend ==
    IF FcUnbuffered THEN fc = <<>> /\ tracer.pc = "recv" ELSE Len(fc) < 1

\* A handler calls a trace-call wrapper.
Submit(c) ==
    /\ at[c].pc = "out"
    /\ \E call \in TraceCalls : at' = [at EXCEPT ![c] = [h |-> call, pc |-> "send"]]
    /\ UNCHANGED <<srv, hnd, kern, hist, files, chan, deleted>>

\* s.fc <- thunk
Send(c) ==
    /\ at[c].pc = "send"
    /\ CanSend
    /\ fc' = Append(fc, [by |-> c, call |-> at[c].h])
    /\ at' = [at EXCEPT ![c] = [@ EXCEPT !.pc = "recv"]]
    /\ UNCHANGED <<srv, hnd, kern, hist, files, tracer, reply, deleted>>

\* ptraceRun: f := <-fc
Accept ==
    /\ tracer.pc = "recv"
    /\ fc # <<>>
    /\ tracer' = [pc |-> "run", by |-> Head(fc).by, call |-> Head(fc).call, err |-> "none"]
    /\ fc' = Tail(fc)
    /\ UNCHANGED <<srv, hnd, kern, hist, files, at, reply, deleted>>

\* ptraceRun: err := f(), the trace call itself, on the tracer task.
RunThunk ==
    /\ tracer.pc = "run"
    /\ \E e \in Outcomes : tracer' = [tracer EXCEPT !.pc = "send", !.err = e]
    /\ UNCHANGED <<srv, hnd, kern, hist, files, at, fc, reply, deleted>>

\* ptraceRun: ec <- err, received by a wrapper in <-s.ec.
Reply(c) ==
    /\ tracer.pc = "send"
    /\ at[c].pc = "recv"
    /\ reply' = [reply EXCEPT ![c] = [by |-> tracer.by, call |-> tracer.call, err |-> tracer.err]]
    /\ tracer' = TracerIdle
    /\ at' = [at EXCEPT ![c] = Out]
    /\ UNCHANGED <<srv, hnd, kern, hist, files, fc, deleted>>

NextTracer ==
    \/ \E c \in Callers : Submit(c) \/ Send(c) \/ Reply(c)
    \/ Accept
    \/ RunThunk

SpecTracer == Init /\ [][NextTracer]_vars

(***************************************************************************)
(* Properties.                                                             *)
(***************************************************************************)
\* No handler is executing: control is with the caller.
AtRest == pc \in {"idle", "done"}

\* The debuggee exists and none of its tasks is executing.
DebuggeeStopped ==
    /\ \E t \in Tids : Stopped(t)
    /\ \A t \in Tids : task[t].st \in {"none", "pend", "stop"}

\* Every table pc holds its original instruction / the breakpoint instruction.
Lifted == \A a \in DOMAIN breakpoints : mem[a] = Text(a)
Installed == \A a \in DOMAIN breakpoints : mem[a] = BreakpointInstr

ResumeOk == pc = "done" /\ ret.op = "Resume" /\ ret.err = "nil"

BeforeContinue == req.op = "Resume" /\ pc \in {"setBreakpoints", "cont"}

\* The step-over single-stepped the task from P over the original
\* instruction at P, and that instruction executed exactly once.
SteppedOnce(P) ==
    /\ obs.path = "step"
    /\ obs.stepFrom = P
    /\ obs.stepByte = Text(P)
    /\ nexec = 1
    /\ CanTrace(stoppedPid) => task[stoppedPid].rip = P + 1

C4_StopAtBreakpoint ==
    (ResumeOk /\ obs.cause = "bp") =>
        (ret.pc = obs.at /\ obs.at \in DOMAIN breakpoints)

\* Resume returned from the breakpoint at main.f2.
C4_Witness ==
    /\ ResumeOk /\ obs.cause = "bp"
    /\ obs.at = SymAddr("main.f2") /\ ret.pc = SymAddr("main.f2")

\* C5: after a successful Resume, while the stopped task exists, its
\* actual pc register equals the returned status.pc and the cached pc,
\* which is the pc the kernel reported at the stop minus BreakpointSize.
C5_Rewind ==
    (ResumeOk /\ CanTrace(stoppedPid)) =>
        /\ task[stoppedPid].rip = ret.pc
        /\ stoppedRegs.Rip = ret.pc
        /\ ret.pc = obs.rip - BreakpointSize

\* Resume returned; the kernel had reported a pc past the breakpoint
\* instruction and the task's pc is now the rewound one.
C5_Witness ==
    /\ ResumeOk /\ CanTrace(stoppedPid)
    /\ obs.rip = task[stoppedPid].rip + BreakpointSize
    /\ obs.rip > BreakpointSize

BreakpointDone == pc = "done" /\ ret.op = "Breakpoint"

\* The pcs the expression of a Breakpoint call resolves to, in the order
\* the call handles them.
Pcs(e) ==
    IF eval(e).ok THEN [i \in 1..Len(eval(e).v) |-> evalAddress(eval(e).v[i])]
    ELSE <<>>

\* The i-th pc of e is in table bps, and the pcs before it are not.
DupAt(e, bps, i) ==
    /\ i \in 1..Len(Pcs(e))
    /\ \A j \in 1..i : Pcs(e)[j].ok
    /\ Pcs(e)[i].v \in DOMAIN bps
    /\ \A j \in 1..(i - 1) : Pcs(e)[j].v \notin DOMAIN bps

\* Every entry of table bps is in the table now, as it was.
Kept(bps) == \A a \in DOMAIN bps : a \in DOMAIN breakpoints /\ breakpoints[a] = bps[a]

\* C6 as stated: a Breakpoint call whose expression resolves to a pc
\* already in the table returns DuplicateBreakpoint and leaves the
\* existing entries as they were.
C6_Duplicate ==
    (BreakpointDone /\ \E i \in 1..Len(SymNames) : DupAt(req.expr, pre.breakpoints, i)) =>
        (ret.err = "DuplicateBreakpoint" /\ Kept(pre.breakpoints))

\* C6 amended: such a call returns DuplicateBreakpoint once it has
\* inserted every pc that its expression resolves to before the present
\* one (none, if the expression resolves to one pc), and otherwise returns
\* the ptracePeek error of the earlier pc it could not read; in both cases
\* the entries that existed before the call are as they were.
C6_DuplicateUnlessPeekFails ==
    \A i \in 1..Len(SymNames) :
        (BreakpointDone /\ DupAt(req.expr, pre.breakpoints, i)) =>
            /\ Kept(pre.breakpoints)
            /\ IF \A j \in 1..(i - 1) : Pcs(req.expr)[j].v \in DOMAIN breakpoints
               THEN ret.err = "DuplicateBreakpoint"
               ELSE ret.err = "ptracePeek"

\* A regular expression reached a present pc after the call had inserted
\* another one.
C6_Witness ==
    /\ BreakpointDone /\ ret.err = "DuplicateBreakpoint"
    /\ req.expr.pre = "re:"
    /\ pre.breakpoints # <<>>
    /\ DOMAIN breakpoints # DOMAIN pre.breakpoints

InResume == req.op = "Resume" /\ pc \notin {"idle", "done"}

\* C7: waitForTrap returns only for a SIGTRAP stop that is no clone event,
\* and to its caller it returns the task of that stop; for every other
\* stop it continues the task wait reported and waits again.
C7_CloneTransparency ==
    /\ (pc = "waitForTrap" /\ wf.at = "cont") =>
            (wf.status \in {"clone", "sig", "exit"} /\ wf.wpid = obs.wtid)
    /\ (pc = "waitForTrap" /\ wf.at = "wait" /\ wf.wpid # NoPid) =>
            (last = Call("cont", wf.wpid) /\ obs.wstatus # "trap")
    /\ (InResume /\ pc = "setOptions") =>
            (obs.wstatus = "trap" /\ obs.wtid = stoppedPid)
    /\ (InResume /\ pc \in {"setBreakpoints", "cont"} /\ obs.path # "direct") =>
            (obs.wstatus = "trap" /\ obs.wtid = stoppedPid)
    /\ ((InResume /\ pc \in {"liftBreakpoints", "getRegs", "setRegs"}) \/ ResumeOk) =>
            (obs.wstatus = "trap" /\ obs.wtid = stoppedPid /\ obs.cause \in {"exec", "bp", "step"})

\* Resume returned after its wait had continued a clone event and the
\* SIGSTOP of the new task.
C7_Witness ==
    /\ ResumeOk
    /\ {"clone", "sig"} \subseteq obs.answered

ResumeDone == pc = "done" /\ ret.op = "Resume"

\* C8: Resume called while no process exists returns NoProcess, issues no
\* trace call and leaves the server's fields unchanged.
C8_NoProcess ==
    /\ (ResumeDone /\ pre.proc = NoProc) =>
            /\ ret.err = "NoProcess"
            /\ issued = {}
            /\ <<proc, procIsUp, stoppedPid, stoppedRegs, breakpoints>> =
                   <<pre.proc, pre.procIsUp, pre.stoppedPid, pre.stoppedRegs, pre.breakpoints>>
    /\ InResume => pre.proc # NoProc

\* Resume returned NoProcess after a failed Run had cleared a process for
\* which breakpoints had been set.
C8_Witness ==
    /\ ResumeDone /\ ret.err = "NoProcess"
    /\ DOMAIN breakpoints # {}

RunOk == pc = "done" /\ ret.op = "Run" /\ ret.err = "nil"
RunFailed == pc = "done" /\ ret.op = "Run" /\ ret.err # "nil"

\* The engine is in Started: the new child stands at its exec stop, which
\* no wait has reported, and nothing is cached.
Started ==
    /\ proc = RootPid /\ ~procIsUp
    /\ stoppedPid = RootPid /\ stoppedRegs = ZeroRegs
    /\ task = StartedTasks /\ mem = FreshMem

\* C9: after every successful Run the engine is in Started, having issued
\* no wait; it stays there until the next Resume, which takes the
\* first-call path.
C9_RunLifecycle ==
    /\ RunOk => (Started /\ issued = {})
    /\ (AtRest /\ proc # NoProc /\ ~procIsUp) => Started
    /\ (InResume /\ ~pre.procIsUp) => obs.path = "first"

\* Run succeeded while a process was up and stopped with cached registers.
C9_Witness ==
    /\ RunOk
    /\ pre.proc # NoProc /\ pre.procIsUp /\ pre.stoppedRegs # ZeroRegs

\* C10: after a failed Run no process exists; and whenever no process
\* exists, procIsUp is false and stoppedPid is 0.
C10_FailedRun ==
    /\ RunFailed => (proc = NoProc /\ ~procIsUp /\ stoppedPid = NoPid)
    /\ proc = NoProc => (~procIsUp /\ stoppedPid = NoPid /\ stoppedRegs = ZeroRegs)

\* Run failed while a process was up.
C10_Witness ==
    /\ RunFailed
    /\ pre.proc # NoProc /\ pre.procIsUp /\ pre.stoppedPid # NoPid

\* C11: at most one caller is inside a handler body at a time, and the
\* mutex is held exactly while one is: no return leaves it locked.
C11_Serialized ==
    /\ Cardinality({c \in Callers : Inside(c)}) <= 1
    /\ mu <=> (\E c \in Callers : Inside(c))

\* A caller is inside Resume while another is blocked in Lock.
C11_Witness ==
    \E c, d \in Callers :
        /\ Inside(c) /\ at[c].h = "Resume"
        /\ at[d].pc = "lock" /\ at[d].h = "Breakpoint"

\* C12: the tracer runs one thunk at a time; while it holds a thunk the
\* submitter of that thunk, and no other caller, is blocked in the receive
\* from ec; and the reply a caller takes is the error of its own thunk.
C12_OwnReply ==
    /\ Len(fc) <= 1
    /\ \A c \in Callers : reply[c] # NoReply => reply[c].by = c
    /\ tracer.pc # "recv" =>
          \A c \in Callers : at[c].pc = "recv" <=> c = tracer.by
    /\ \A c \in Callers : at[c].pc = "recv" =>
          (tracer.pc # "recv" \/ (fc # <<>> /\ Head(fc).by = c))

\* A caller has taken the error of its thunk while the tracer runs the
\* thunk of another caller and the first is about to submit again.
C12_Witness ==
    \E c, d \in Callers :
        /\ c # d
        /\ reply[c].by = c /\ reply[c].err = "err"
        /\ tracer.pc = "run" /\ tracer.by = d
        /\ at[c].pc = "send"

FileOpDone(op) == pc = "done" /\ ret.op = op

\* C13: Close of an occupied slot empties that slot and no other, whether
\* or not the host close failed; ReadAt and Close of a slot that is empty
\* return BadFd and leave the table as it is.
C13_CloseEmpties ==
    /\ (FileOpDone("Close") /\ Occupied(pre.files, req.fd)) =>
          /\ ~Occupied(files, req.fd)
          /\ files = [pre.files EXCEPT ![req.fd + 1] = NilFile]
          /\ ret.err \in {"nil", "Close"}
    /\ ((FileOpDone("ReadAt") \/ FileOpDone("Close")) /\ ~Occupied(pre.files, req.fd)) =>
          (ret.err = "BadFd" /\ files = pre.files)

\* The host close failed and the slot, not the last of the table, is empty.
C13_Witness ==
    /\ FileOpDone("Close") /\ ret.err = "Close"
    /\ Occupied(pre.files, req.fd) /\ ~Occupied(files, req.fd)
    /\ req.fd + 1 < Len(files)

FramesDone == pc = "done" /\ ret.op = "Frames"

EvalDone == pc = "done" /\ ret.op = "Eval"

\* The server's fields and file table are as the handler call found them.
FieldsKept ==
    /\ <<proc, procIsUp, stoppedPid, stoppedRegs, breakpoints>> =
          <<pre.proc, pre.procIsUp, pre.stoppedPid, pre.stoppedRegs, pre.breakpoints>>
    /\ files = pre.files

\* C15: Eval and Frames, on success or on error, leave the server's fields
\* and the file table unchanged; Eval issues no trace call and Frames only
\* reads registers and peeks memory.
C15_ReadOnly ==
    /\ EvalDone => (FieldsKept /\ issued = {})
    /\ FramesDone => (FieldsKept /\ issued \subseteq {"getRegs", "peek"})

\* Frames succeeded, having read registers and peeked memory, on a task
\* whose actual pc differs from the cached one.
C15_Witness ==
    /\ FramesDone /\ ret.err = "nil"
    /\ issued = {"getRegs", "peek"}
    /\ CanTrace(stoppedPid) /\ task[stoppedPid].rip # stoppedRegs.Rip

\* C16 as stated: a Breakpoint call on a stopped process, with an
\* expression Eval accepts, that meets no duplicate pc and no failing
\* peek, succeeds and every pc its results resolve to is in the table.
C16_AcceptsEvalForms ==
    (/\ BreakpointDone
     /\ eval(req.expr).ok
     /\ CanTrace(stoppedPid)
     /\ ret.err \notin {"DuplicateBreakpoint", "ptracePeek"}) =>
        /\ ret.err = "nil"
        /\ \A i \in 1..Len(Pcs(req.expr)) :
              Pcs(req.expr)[i].ok /\ Pcs(req.expr)[i].v \in DOMAIN breakpoints

\* C17 as stated: a pc whose deletion has been requested is not patched by
\* the next install and does not cause the next stop: with breakpoints at
\* main.f1 and main.f2 and those of main.f1 deleted, the next Resume does
\* not stop at main.f1.
C17_DeletedNeverFire ==
    /\ (req.op = "Resume" /\ pc = "cont") =>
          \A a \in deleted : mem[a] # BreakpointInstr
    /\ (ResumeOk /\ obs.cause = "bp") => obs.at \notin deleted

C19_ExitDestroys ==
    /\ (ResumeDone /\ obs.wstatus = "exit") =>
          (proc = NoProc /\ ~procIsUp /\ stoppedPid = NoPid)
    /\ (ResumeDone /\ obs.wstatus = "none" /\ \A t \in Tids : task[t] = NoTask) =>
          ret.err = "NoProcess"

\* A trace call of Resume failed: the last call issued could not succeed or
\* was answered with an error.
TraceErrors ==
    {"wait", "ptraceCont", "ptraceSetOptions", "ptraceSingleStep", "setBreakpoints",
     "liftBreakpoints", "ptraceGetRegs", "ptraceSetRegs"}

\* C20: Resume on a process returns only after its last wait reported a
\* SIGTRAP stop that is no clone event, or with the error of a trace call
\* that failed; it holds the mutex until it returns; and when the handler
\* runs and the debuggee is not starved, every Resume returns.
C20_ResumeReturns ==
    /\ [](InResume => mu)
    /\ []((ResumeDone /\ pre.proc # NoProc) =>
             IF ret.err = "nil"
             THEN obs.wstatus = "trap" /\ "wait" \in issued
             ELSE ret.err \in TraceErrors /\ issued # {})
    /\ (InResume ~> ResumeDone)

\* Resume returned the stop at a breakpoint after its wait had twice been
\* answered with a stop it does not return for.
C20_Witness ==
    /\ ResumeOk /\ obs.cause = "bp"
    /\ {"clone", "sig"} \subseteq obs.answered
    /\ mu = FALSE

\* Without fairness for the debuggee Resume need not return.
C20_ReturnsUnfair == InResume ~> ResumeDone

\* This step issues a continue trace call.
IssuesCont == last' # last /\ last'.call = "cont"

\* The wait that produces the stop Resume returns (server.go:290) is followed
\* by lift_all: control goes from that wait to liftBreakpoints, no register
\* call comes before the last poke of the lift, and the registers are read
\* and written, and Resume returns, with every table pc lifted.
LiftFollowsWait ==
    /\ [][(pc = "waitForTrap" /\ wf.from = "main" /\ pc' \notin {"waitForTrap", "done"}) =>
             \/ pc' = "liftBreakpoints" /\ todo' = DOMAIN breakpoints
             \/ pc' = "getRegs" /\ DOMAIN breakpoints = {}]_vars
    /\ []((req.op = "Resume" /\ pc = "liftBreakpoints") => last.call \in {"wait", "poke"})
    /\ []((req.op = "Resume" /\ pc \in {"getRegs", "setRegs"}) => Lifted)
    /\ [](ResumeOk => Lifted)

\* C21 as stated: every continue the engine issues, those of waitForTrap
\* included, comes after a completed install_all with no lift since, so
\* every table pc holds the breakpoint instruction when it is issued; and
\* the wait that produces the stop Resume returns is followed by lift_all
\* before any register call or return.
C21_Ordering ==
    /\ [][IssuesCont => Installed]_vars
    /\ LiftFollowsWait

\* C21 amended: the continue of server.go:285 and the continues of the
\* waitForTrap that follows it (server.go:290) come after a completed
\* install_all with no lift since; the continues of the waitForTrap of the
\* first-call and step-over paths (server.go:262, 275) are issued before
\* install_all, on original bytes unless a failed Resume left table pcs
\* patched.  The second half is as stated.
C21_OrderingAfterInstall ==
    /\ [][(IssuesCont /\ (pc = "cont" \/ wf.from = "main")) => Installed]_vars
    /\ [][(IssuesCont /\ pc # "cont" /\ wf.from # "main" /\ ~dirty) => Lifted]_vars
    /\ LiftFollowsWait

\* Resume returned a stop at a breakpoint after the wait that followed its
\* install_all had issued a continue with several breakpoints set.
C21_Witness ==
    /\ ResumeOk /\ obs.cause = "bp"
    /\ "sig" \in obs.answered
    /\ obs.path # "step"
    /\ Cardinality(DOMAIN breakpoints) > 1

\* The handshake with the current process completed: set_options succeeded,
\* which Resume calls only after its wait returned the exec stop.
HandshakeDone == traceclone

\* This step issues a poke of install_all, a continue or a single-step.
IssuesControl ==
    /\ req.op = "Resume"
    /\ last' # last
    /\ last'.call \in {"cont", "singleStep"} \/ (last'.call = "poke" /\ pc = "setBreakpoints")

\* C22 as stated: no install_all, continue or single-step is issued for a
\* process before its handshake completed, and with no handler executing
\* procIsUp is true only for a process whose handshake completed.
C22_Handshake ==
    /\ [][IssuesControl => HandshakeDone]_vars
    /\ []((AtRest /\ procIsUp) => HandshakeDone)

\* The handler, not the debuggee, took this step of a batch.
BatchStep(where) == req.op = "Resume" /\ pc = where /\ (todo' # todo \/ pc' # pc)

\* The step ended Resume with the batch's error and touched neither the
\* debuggee's memory nor its tasks.
Aborts(err) ==
    /\ pc' = "done" /\ ret'.op = "Resume" /\ ret'.err = err
    /\ last'.call = "poke"
    /\ mem' = mem /\ task' = task /\ stoppedRegs' = stoppedRegs

\* C23: every step of install_all either pokes the breakpoint instruction
\* at one entry not yet poked or, its poke having failed, ends Resume with
\* that error without another poke and without a continue; every step of
\* lift_all either pokes the saved bytes at one entry or ends Resume with
\* that error without another poke and without a register call; the task
\* the engine had stopped is still stopped when Resume returns.
C23_BatchFailure ==
    /\ [][BatchStep("setBreakpoints") =>
             \/ \E a \in todo :
                   /\ mem' = KPoke(a, BreakpointInstr)
                   /\ todo' = todo \ {a}
                   /\ pc' = IF todo = {a} THEN "cont" ELSE pc
             \/ Aborts("setBreakpoints")]_vars
    /\ [][BatchStep("liftBreakpoints") =>
             \/ \E a \in todo :
                   /\ mem' = KPoke(a, breakpoints[a].origInstr)
                   /\ todo' = todo \ {a}
                   /\ pc' = IF todo = {a} THEN "getRegs" ELSE pc
             \/ Aborts("liftBreakpoints")]_vars
    /\ []((ResumeDone /\ ret.err = "setBreakpoints") =>
             /\ last.call = "poke"
             /\ obs.answered = {} => "cont" \notin issued)
    /\ []((ResumeDone /\ ret.err = "liftBreakpoints") =>
             /\ last.call = "poke"
             /\ {"getRegs", "setRegs"} \cap issued = {}
             /\ stoppedRegs = pre.stoppedRegs)
    /\ []((ResumeDone /\ ret.err \in {"setBreakpoints", "liftBreakpoints"}
             /\ stoppedPid \in Tids) => ~Running(stoppedPid))

\* lift_all failed in mid-batch: Resume returned its error with one table
\* pc restored, another still patched and the task stopped.
C23_Witness ==
    /\ ResumeDone /\ ret.err = "liftBreakpoints"
    /\ \E a, b \in DOMAIN breakpoints : mem[a] = Text(a) /\ mem[b] = BreakpointInstr
    /\ CanTrace(stoppedPid)

\* C24 (I3): in every reachable state every table entry is filed under its
\* pc and its saved bytes are those the unpatched program has at that pc,
\* never the breakpoint instruction.
C24_GenuineBytes ==
    \A a \in DOMAIN breakpoints :
        /\ breakpoints[a].pc = a
        /\ breakpoints[a].origInstr = Text(a)
        /\ breakpoints[a].origInstr # BreakpointInstr

\* A Breakpoint call added an entry while an earlier entry's pc was still
\* patched, left so by a Resume that failed after install_all.
C24_Witness ==
    /\ BreakpointDone /\ ret.err = "nil"
    /\ DOMAIN breakpoints # DOMAIN pre.breakpoints
    /\ \E b \in DOMAIN pre.breakpoints : mem[b] = BreakpointInstr

\* The pcs the symbol table gives for expression e: the entries of the
\* functions a pattern matches, the entry of a symbol, the entry of the
\* function that holds an address.
Resolved(e) ==
    CASE e.pre = "re:" -> {SymAddr(n) : n \in {m \in SymSet : Matches(e.arg.s, m)}}
      [] e.pre = "sym:" -> {SymAddr(e.arg.s)}
      [] OTHER -> {SymAddr(FuncOf(CHOOSE a \in 0..ExitPC : Hex(a) = e.arg))}

\* C25: a Breakpoint call, successful or not, issues only peek trace calls
\* and leaves the debuggee's memory and tasks, proc, procIsUp, stoppedPid,
\* stoppedRegs and the file table unchanged and every existing entry as it
\* was; a successful call adds exactly the pcs its expression resolves to.
C25_TableOnly ==
    /\ [][(pc = "idle" /\ req'.op = "Breakpoint") =>
             (mem' = mem /\ task' = task /\ traceclone' = traceclone /\ files' = files)]_vars
    /\ [](BreakpointDone =>
             /\ issued \subseteq {"peek"}
             /\ <<proc, procIsUp, stoppedPid, stoppedRegs>> =
                   <<pre.proc, pre.procIsUp, pre.stoppedPid, pre.stoppedRegs>>
             /\ files = pre.files
             /\ Kept(pre.breakpoints))
    /\ []((BreakpointDone /\ ret.err = "nil") =>
             DOMAIN breakpoints = DOMAIN pre.breakpoints \cup Resolved(req.expr))

\* A Breakpoint call with a pattern added the entries of main.f1 and
\* main.f2 to a table that held another entry, on a process that a Resume
\* had stopped.
C25_Witness ==
    /\ BreakpointDone /\ ret.err = "nil"
    /\ req.expr.pre = "re:"
    /\ DOMAIN pre.breakpoints = {SymAddr("rt0")}
    /\ DOMAIN breakpoints = {SymAddr("rt0"), SymAddr("main.f1"), SymAddr("main.f2")}
    /\ procIsUp /\ issued = {"peek"}

\* C26 as stated: a Breakpoint call that returns an error leaves the table
\* as it was before the call.
C26_AllOrNothing ==
    (BreakpointDone /\ ret.err # "nil") => breakpoints = pre.breakpoints

\* C27: the address of a symbol, formatted by eval and parsed by
\* evalAddress, is the address again, for every address of the word; and
\* Breakpoint("sym:N") for a symbol N whose address is not in the table, on
\* a stopped process whose memory can be read, adds exactly one entry, under
\* the address of N, and keeps the others.
C27_SymRoundTrip ==
    /\ (pc = "done" /\ ret.op = "SymPath") =>
          (ret.err = "nil" /\ ret.pc = req.addr)
    /\ (BreakpointDone /\ req.expr.pre = "sym:") =>
          LET N == req.expr.arg.s IN
          (/\ N \in SymSet
           /\ SymAddr(N) \notin DOMAIN pre.breakpoints
           /\ CanTrace(stoppedPid)
           /\ ret.err # "ptracePeek") =>
              /\ ret.err = "nil"
              /\ DOMAIN breakpoints = DOMAIN pre.breakpoints \cup {SymAddr(N)}
              /\ breakpoints[SymAddr(N)].pc = SymAddr(N)
              /\ Kept(pre.breakpoints)

\* Breakpoint("sym:main.f2") added the entry of main.f2 to a table that
\* held the entry of main.f1.
C27_Witness ==
    /\ BreakpointDone /\ ret.err = "nil"
    /\ req.expr = [pre |-> "sym:", arg |-> Name("main.f2")]
    /\ DOMAIN pre.breakpoints = {SymAddr("main.f1")}
    /\ DOMAIN breakpoints = {SymAddr("main.f1"), SymAddr("main.f2")}

\* The empty slots of table fs, as file descriptors.
EmptySlots(fs) == {i \in 0..(Len(fs) - 1) : fs[i + 1] = NilFile}

\* C28: a successful Open stores the new file in the lowest empty slot and
\* appends a slot only when no slot is empty, leaving the other slots as they
\* were; every occupied slot i holds a record whose index is i, so no two
\* open files share an index; and no Open, ReadAt or Close makes the table
\* shorter.
C28_SlotAllocation ==
    /\ (FileOpDone("Open") /\ ret.err = "nil") =>
          LET free == EmptySlots(pre.files)
              i == IF free = {} THEN Len(pre.files)
                   ELSE CHOOSE k \in free : \A j \in free : k <= j
          IN /\ Len(files) = IF free = {} THEN Len(pre.files) + 1 ELSE Len(pre.files)
             /\ files[i + 1] = [mode |-> req.mode, index |-> i]
             /\ \A j \in 1..Len(pre.files) : j # i + 1 => files[j] = pre.files[j]
    /\ \A i \in 0..(Len(files) - 1) : Occupied(files, i) => files[i + 1].index = i
    /\ \A i, j \in 0..(Len(files) - 1) :
          (Occupied(files, i) /\ Occupied(files, j) /\ files[i + 1].index = files[j + 1].index)
             => i = j
    /\ Len(files) >= Len(pre.files)

\* Open reused slot 0 of a table whose slot 1 is occupied.
C28_Witness ==
    /\ FileOpDone("Open") /\ ret.err = "nil"
    /\ Len(pre.files) = 2 /\ ~Occupied(pre.files, 0) /\ Occupied(pre.files, 1)
    /\ Occupied(files, 0) /\ Occupied(files, 1) /\ Len(files) = 2

\* File descriptor fd is negative, beyond the table fs, or names an empty slot.
NoFile(fs, fd) == fd < 0 \/ fd >= Len(fs) \/ fs[fd + 1] = NilFile

\* C29: Open with a mode other than r, w, rw returns BadMode and calls no
\* host open; Open whose host open fails returns that error; ReadAt and Close
\* with a descriptor that is negative, beyond the table or of an empty slot
\* return BadFd; each of these calls, and every ReadAt, leaves the table as it
\* was.
C29_FailuresKeepTable ==
    /\ (FileOpDone("Open") /\ req.mode \notin {"r", "w", "rw"}) =>
          (ret.err = "BadMode" /\ issued = {} /\ files = pre.files)
    /\ (FileOpDone("Open") /\ ret.err # "nil") => files = pre.files
    /\ (FileOpDone("Open") /\ req.mode \in {"r", "w", "rw"}) =>
          (ret.err \in {"nil", "OpenFile"} /\ issued = {"os.OpenFile"})
    /\ ((FileOpDone("ReadAt") \/ FileOpDone("Close")) /\ NoFile(pre.files, req.fd)) =>
          (ret.err = "BadFd" /\ issued = {} /\ files = pre.files)
    /\ FileOpDone("ReadAt") => files = pre.files

\* Close of the empty slot 0 of a table whose slot 1 is occupied.
C29_Witness ==
    /\ FileOpDone("Close") /\ ret.err = "BadFd" /\ req.fd = 0
    /\ Len(files) = 2 /\ files[1] = NilFile /\ files[2] # NilFile
    /\ files = pre.files

\* C30: every step of every handler keeps every entry of the breakpoint
\* table, key and record; Run, whether it started a process or failed, and
\* whether or not a process existed, returns with the table it found; and
\* when the first Resume of a process issues its continue, every pc of the
\* table, whichever process it was set for, holds the breakpoint instruction
\* in the memory of the process.
C30_TableGrows ==
    /\ [][\A a \in DOMAIN breakpoints :
             a \in DOMAIN breakpoints' /\ breakpoints'[a] = breakpoints[a]]_vars
    /\ []((pc = "done" /\ ret.op = "Run") => breakpoints = pre.breakpoints)
    /\ []((req.op = "Resume" /\ pc = "cont" /\ ~pre.procIsUp) =>
             \A a \in DOMAIN breakpoints : mem[a] = BreakpointInstr)

\* Run replaced a process for which two breakpoints were set: the table has
\* both, the memory of the new process has neither, and the Resume to come
\* is the first of the process.
C30_Witness ==
    /\ pc = "done" /\ ret.op = "Run" /\ ret.err = "nil"
    /\ pre.proc # NoProc /\ pre.procIsUp
    /\ DOMAIN breakpoints = {SymAddr("main.f1"), SymAddr("main.f2")}
    /\ breakpoints = pre.breakpoints
    /\ \A a \in DOMAIN breakpoints : mem[a] # BreakpointInstr
    /\ ~procIsUp

\* C31 as stated: whenever no handler is executing and procIsUp is true,
\* stoppedPid is a stopped task of the debuggee (after a Resume, the task
\* whose stop its last wait reported), the cached pc stoppedRegs.Rip is the
\* actual pc of that task, and the step-over test of the next Resume (cached
\* pc in the table) is true exactly when that actual pc is in the table.
C31_CacheCoherent ==
    (AtRest /\ procIsUp) =>
        /\ CanTrace(stoppedPid)
        /\ (ResumeDone /\ obs.wtid # NoPid) => stoppedPid = obs.wtid
        /\ stoppedRegs.Rip = task[stoppedPid].rip
        /\ OnBreakpoint <=> task[stoppedPid].rip \in DOMAIN breakpoints

====
